---- MODULE Spec2Model ----
(***************************************************************************)
(* Model of the prover constraint system of circuit_proof/prover.rs:       *)
(* the ProverCS builder (assign_multiplier, assign_uncommitted,            *)
(* add_constraint, challenge_scalar), its construction (new), the          *)
(* constraint flattening and the proving algorithm (prove).                *)
(*                                                                         *)
(* Scalars are the integers modulo ScalarOrder.  A group element is        *)
(* represented by the sequence of scalars it was formed from over the      *)
(* (independent) generators, so a commitment is identified with its        *)
(* opening.  The transcript is the log of the operations performed on it;  *)
(* a challenge is a fixed function of that log and of the label.           *)
(***************************************************************************)
EXTENDS Integers, Sequences, FiniteSets, TLC

\* ------------------------------------------------------------------ bounds

\* Most external inputs passed to new.
MaxM == 2
\* Most multiplication gates allocated by gadget code before prove.
MaxGates == 3
\* Most constraints registered before prove.
MaxConstraints == 2
\* Most challenge_scalar calls made by gadget code before prove.
MaxChallenges == 1

\* ----------------------------------------------------------------- scalars

\* The order of the scalar field (a small prime stands for the group order).
ScalarOrder == 13

Scalars == 0..(ScalarOrder - 1)

Add(a, b) == (a + b) % ScalarOrder
Sub(a, b) == (a - b) % ScalarOrder
Mul(a, b) == (a * b) % ScalarOrder
Neg(a) == (0 - a) % ScalarOrder

RECURSIVE Pow(_, _)
Pow(a, k) == IF k = 0 THEN 1 % ScalarOrder ELSE Mul(a, Pow(a, k - 1))

\* Scalar::invert: a^(order - 2); the inverse of a nonzero scalar, 0 for 0.
Invert(a) == Pow(a, ScalarOrder - 2)

\* vec![Scalar::zero(); n]
Zeros(n) == [i \in 1..n |-> 0]

\* The sum of the first k entries of s.
RECURSIVE SumTo(_, _)
SumTo(s, k) == IF k = 0 THEN 0 ELSE Add(s[k] % ScalarOrder, SumTo(s, k - 1))

SumSeq(s) == SumTo(s, Len(s))

\* <a, b> for two vectors of the same length.
InnerProduct(a, b) == SumSeq([i \in 1..Len(a) |-> Mul(a[i], b[i])])

\* --------------------------------------------------------------- variables

\* Variable: the five kinds of wire reference (gate indices are 0-based).
MultiplierLeft(i) == [kind |-> "MultiplierLeft", i |-> i]
MultiplierRight(i) == [kind |-> "MultiplierRight", i |-> i]
MultiplierOutput(i) == [kind |-> "MultiplierOutput", i |-> i]
Committed(i) == [kind |-> "Committed", i |-> i]
One == [kind |-> "One", i |-> 0]

\* Assignment: a known value or the missing assignment.
Value(s) == [known |-> TRUE, val |-> s]
Missing == [known |-> FALSE, val |-> 0]

\* Assignment * Assignment: the product if both are known, else missing.
AssignmentMul(x, y) ==
    IF x.known /\ y.known THEN Value(Mul(x.val, y.val)) ELSE Missing

VARIABLES
    transcript,   \* the borrowed transcript: the log of operations on it
    gens_capacity, \* bp_gens.gens_capacity
    constraints,  \* Vec<LinearCombination>, each a sequence of <<Variable, coeff>>
    a_L, a_R, a_O, \* the witness triples, one scalar per gate
    v, v_blinding, \* openings of the external inputs
    pc,           \* "building" until prove consumes the system, then "proved" / "failed"
    result,       \* what the last operation returned
    proof,        \* what prove computed: the proof and the values it was built from
    twin          \* a second run of the same operations on an equal transcript

vars == <<transcript, gens_capacity, constraints, a_L, a_R, a_O,
          v, v_blinding, pc, result, proof, twin>>

\* -------------------------------------------------------------- transcript

\* A number for each label used on the transcript.
LabelCode(label) ==
    CASE label = "dom-sep" -> 1
      [] label = "V" -> 2
      [] label = "k" -> 3
      [] label = "A_I" -> 4
      [] label = "A_O" -> 5
      [] label = "S" -> 6
      [] label = "y" -> 7
      [] label = "z" -> 8
      [] label = "T_1" -> 9
      [] label = "T_3" -> 10
      [] label = "T_4" -> 11
      [] label = "T_5" -> 12
      [] label = "T_6" -> 14
      [] label = "x" -> 15
      [] label = "t_x" -> 16
      [] label = "t_x_blinding" -> 17
      [] label = "e_blinding" -> 18
      [] label = "w" -> 19
      [] label = "ipp" -> 20
      [] OTHER -> 21

\* The bytes of one transcript entry, folded to a scalar.
EntryCode(e) ==
    (LabelCode(e.label) + Len(e.data)
     + SumSeq([i \in 1..Len(e.data) |-> Mul(i + 1, e.data[i] % ScalarOrder)]))
    % ScalarOrder

\* The transcript's state after the first k operations of log t.
RECURSIVE DigestTo(_, _)
DigestTo(t, k) ==
    IF k = 0 THEN 1
    ELSE (5 * DigestTo(t, k - 1) + EntryCode(t[k]) + 1) % ScalarOrder

Digest(t) == DigestTo(t, Len(t))

\* TranscriptProtocol::r1cs_domain_sep(m)
r1cs_domain_sep(t, m) ==
    Append(t, [op |-> "r1cs_domain_sep", label |-> "dom-sep", data |-> <<m>>])

\* TranscriptProtocol::commit_point(label, point)
commit_point(t, label, point) ==
    Append(t, [op |-> "commit_point", label |-> label, data |-> point])

\* TranscriptProtocol::commit_scalar(label, scalar)
commit_scalar(t, label, s) ==
    Append(t, [op |-> "commit_scalar", label |-> label, data |-> <<s>>])

\* TranscriptProtocol::challenge_scalar(label): the value derived ...
TranscriptChallenge(t, label) ==
    (7 * Digest(t) + LabelCode(label)) % ScalarOrder

\* ... and the transcript after deriving it.
TranscriptAfterChallenge(t, label) ==
    Append(t, [op |-> "challenge_scalar", label |-> label, data |-> <<>>])

\* PedersenGens::commit(value, blinding).compress(): value*B + blinding*B_blinding
PedersenCommit(value, blinding) == <<value, blinding>>

\* ------------------------------------------------------------ construction

\* The openings passed to new: the i-th external input and its blinding.
InputValue(i) == (i + 2) % ScalarOrder
InputBlinding(i) == (2 * i + 5) % ScalarOrder

\* The capacities of the generators passed to new.
GensCapacities == {0, 3, 4}

\* The loop of new over i in 0..m: the transcript after committing V_0..V_(k-1).
RECURSIVE CommitInputs(_, _, _, _)
CommitInputs(t, vs, bs, k) ==
    IF k = 0 THEN t
    ELSE commit_point(CommitInputs(t, vs, bs, k - 1), "V",
                      PedersenCommit(vs[k], bs[k]))

\* new absorbing the domain separator after the commitments.
NewTranscriptSepLast(t, vs, bs) ==
    r1cs_domain_sep(CommitInputs(t, vs, bs, Len(vs)), Len(vs))

\* ProverCS::new: the transcript it leaves, the variables and commitments it returns.
NewTranscript(t, vs, bs) == CommitInputs(r1cs_domain_sep(t, Len(vs)), vs, bs, Len(vs))

NewVariables(vs) == [i \in 1..Len(vs) |-> Committed(i - 1)]

\* new leaving its loop one input early.
NewCommitmentsOneShort(vs, bs) ==
    [i \in 1..(Len(vs) - 1) |-> PedersenCommit(vs[i], bs[i])]

NewCommitments(vs, bs) == [i \in 1..Len(vs) |-> PedersenCommit(vs[i], bs[i])]

NoProof == [made |-> FALSE]

NoResult == [op |-> "prove", status |-> "Running", vars |-> <<>>, out |-> <<>>]

Ret(op, status, variables, out) ==
    [op |-> op, status |-> status, vars |-> variables, out |-> out]

new(vs, bs, cap) ==
    /\ Len(vs) = Len(bs)
    /\ transcript = NewTranscript(<<>>, vs, bs)
    /\ gens_capacity = cap
    /\ v = vs
    /\ v_blinding = bs
    /\ constraints = <<>>
    /\ a_L = <<>>
    /\ a_R = <<>>
    /\ a_O = <<>>
    /\ pc = "building"
    /\ result = Ret("new", "Ok", NewVariables(vs), NewCommitments(vs, bs))
    /\ proof = NoProof
    /\ twin = [transcript |-> NewTranscript(<<>>, vs, bs),
               result |-> Ret("new", "Ok", NewVariables(vs), NewCommitments(vs, bs)),
               proof |-> NoProof]

Init ==
    \E m \in 0..MaxM, cap \in GensCapacities :
        new([i \in 1..m |-> InputValue(i - 1)],
            [i \in 1..m |-> InputBlinding(i - 1)], cap)

\* ------------------------------------------------------------- the builder

\* assign_multiplier pushing each input as soon as it is unwrapped.
assign_multiplier_push_early(L, R, O, left, right, out) ==
    IF ~left.known THEN
        [a_L |-> L, a_R |-> R, a_O |-> O, status |-> "MissingAssignment", vars |-> <<>>]
    ELSE IF ~right.known THEN
        [a_L |-> Append(L, left.val), a_R |-> R, a_O |-> O,
         status |-> "MissingAssignment", vars |-> <<>>]
    ELSE IF ~out.known THEN
        [a_L |-> Append(L, left.val), a_R |-> Append(R, right.val), a_O |-> O,
         status |-> "MissingAssignment", vars |-> <<>>]
    ELSE
        [a_L |-> Append(L, left.val), a_R |-> Append(R, right.val),
         a_O |-> Append(O, out.val), status |-> "Ok",
         vars |-> <<MultiplierLeft(Len(L)), MultiplierRight(Len(R)),
                    MultiplierOutput(Len(O))>>]

\* assign_multiplier unwrapping out only after left and right are pushed.
assign_multiplier_out_late(L, R, O, left, right, out) ==
    IF ~left.known \/ ~right.known THEN
        [a_L |-> L, a_R |-> R, a_O |-> O, status |-> "MissingAssignment", vars |-> <<>>]
    ELSE IF ~out.known THEN
        [a_L |-> Append(L, left.val), a_R |-> Append(R, right.val), a_O |-> O,
         status |-> "MissingAssignment", vars |-> <<>>]
    ELSE
        [a_L |-> Append(L, left.val), a_R |-> Append(R, right.val),
         a_O |-> Append(O, out.val), status |-> "Ok",
         vars |-> <<MultiplierLeft(Len(L)), MultiplierRight(Len(R)),
                    MultiplierOutput(Len(O))>>]

\* assign_multiplier returning the lengths after the push as indices.
assign_multiplier_len_index(L, R, O, left, right, out) ==
    IF ~left.known \/ ~right.known \/ ~out.known THEN
        [a_L |-> L, a_R |-> R, a_O |-> O, status |-> "MissingAssignment", vars |-> <<>>]
    ELSE
        [a_L |-> Append(L, left.val), a_R |-> Append(R, right.val),
         a_O |-> Append(O, out.val), status |-> "Ok",
         vars |-> <<MultiplierLeft(Len(L) + 1), MultiplierRight(Len(R) + 1),
                    MultiplierOutput(Len(O) + 1)>>]

\* The body of assign_multiplier on witness arrays L, R, O: the arrays it
\* leaves and what it returns.
assign_multiplier_body(L, R, O, left, right, out) ==
    IF ~left.known THEN
        [a_L |-> L, a_R |-> R, a_O |-> O, status |-> "MissingAssignment", vars |-> <<>>]
    ELSE IF ~right.known THEN
        [a_L |-> L, a_R |-> R, a_O |-> O, status |-> "MissingAssignment", vars |-> <<>>]
    ELSE IF ~out.known THEN
        [a_L |-> L, a_R |-> R, a_O |-> O, status |-> "MissingAssignment", vars |-> <<>>]
    ELSE
        LET L2 == Append(L, left.val)
            R2 == Append(R, right.val)
            O2 == Append(O, out.val)
        IN [a_L |-> L2, a_R |-> R2, a_O |-> O2, status |-> "Ok",
            vars |-> <<MultiplierLeft(Len(L2) - 1),
                       MultiplierRight(Len(R2) - 1),
                       MultiplierOutput(Len(O2) - 1)>>]

\* The assignments gadget code passes for the left, right and output wires
\* of the gate it allocates on a system of n gates.
LeftInputs(n) == {Missing, Value((3 + n) % ScalarOrder)}
RightInputs(n) == {Missing, Value(4)}
OutInputs(n) == {Missing, Value(Mul(3 + n, 4))}

TwinReturns(r) == [twin EXCEPT !.result = r]

assign_multiplier(left, right, out) ==
    /\ pc = "building"
    /\ Len(a_L) < MaxGates
    /\ LET r == assign_multiplier_body(a_L, a_R, a_O, left, right, out)
       IN /\ a_L' = r.a_L
          /\ a_R' = r.a_R
          /\ a_O' = r.a_O
          /\ result' = Ret("assign_multiplier", r.status, r.vars, <<>>)
          /\ twin' = TwinReturns(Ret("assign_multiplier", r.status, r.vars, <<>>))
    /\ UNCHANGED <<transcript, gens_capacity, constraints, v, v_blinding, pc, proof>>

\* assign_uncommitted passing val_1 for the output wire.
assign_uncommitted_out_is_left(val_1, val_2) ==
    /\ pc = "building"
    /\ Len(a_L) < MaxGates
    /\ LET r == assign_multiplier_body(a_L, a_R, a_O, val_1, val_2, val_1)
           ret == IF r.status = "Ok"
                  THEN Ret("assign_uncommitted", "Ok", <<r.vars[1], r.vars[2]>>, <<>>)
                  ELSE Ret("assign_uncommitted", r.status, <<>>, <<>>)
       IN /\ a_L' = r.a_L
          /\ a_R' = r.a_R
          /\ a_O' = r.a_O
          /\ result' = ret
          /\ twin' = TwinReturns(ret)
    /\ UNCHANGED <<transcript, gens_capacity, constraints, v, v_blinding, pc, proof>>

assign_uncommitted(val_1, val_2) ==
    /\ pc = "building"
    /\ Len(a_L) < MaxGates
    /\ LET val_3 == AssignmentMul(val_1, val_2)
           r == assign_multiplier_body(a_L, a_R, a_O, val_1, val_2, val_3)
           ret == IF r.status = "Ok"
                  THEN Ret("assign_uncommitted", "Ok", <<r.vars[1], r.vars[2]>>, <<>>)
                  ELSE Ret("assign_uncommitted", r.status, <<>>, <<>>)
       IN /\ a_L' = r.a_L
          /\ a_R' = r.a_R
          /\ a_O' = r.a_O
          /\ result' = ret
          /\ twin' = TwinReturns(ret)
    /\ UNCHANGED <<transcript, gens_capacity, constraints, v, v_blinding, pc, proof>>

\* The linear combinations gadget code registers, over the variables handed
\* out so far (n gates, m external inputs) and One.
LinearCombinations(n, m) ==
    IF n >= 1
    THEN { << <<MultiplierOutput(n - 1), 1>>, <<One, Neg(12)>> >>,
           << <<MultiplierLeft(n - 1), 2>>, <<MultiplierRight(n - 1), 1>>,
              <<MultiplierLeft(n - 1), 1>> >>
           \o (IF m >= 1 THEN << <<Committed(m - 1), Neg(1)>> >> ELSE <<>>) }
    ELSE { IF m >= 1 THEN << <<Committed(0), 1>>, <<One, Neg(3)>> >>
           ELSE << <<One, 1>> >> }

\* add_constraint refusing a linear combination that does not evaluate to
\* zero under the witness.
add_constraint_validated(lc) ==
    /\ pc = "building"
    /\ Len(constraints) < MaxConstraints
    /\ LET val(var) == CASE var.kind = "MultiplierLeft" -> a_L[var.i + 1]
                         [] var.kind = "MultiplierRight" -> a_R[var.i + 1]
                         [] var.kind = "MultiplierOutput" -> a_O[var.i + 1]
                         [] var.kind = "Committed" -> v[var.i + 1]
                         [] OTHER -> 1
           ok == SumSeq([k \in 1..Len(lc) |-> Mul(lc[k][2], val(lc[k][1]))]) = 0
           ret == Ret("add_constraint", IF ok THEN "Ok" ELSE "InvalidConstraint", <<>>, <<>>)
       IN /\ constraints' = IF ok THEN Append(constraints, lc) ELSE constraints
          /\ result' = ret
          /\ twin' = TwinReturns(ret)
    /\ UNCHANGED <<transcript, gens_capacity, a_L, a_R, a_O, v, v_blinding, pc, proof>>

add_constraint(lc) ==
    /\ pc = "building"
    /\ Len(constraints) < MaxConstraints
    /\ constraints' = Append(constraints, lc)
    /\ result' = Ret("add_constraint", "Ok", <<>>, <<>>)
    /\ twin' = TwinReturns(Ret("add_constraint", "Ok", <<>>, <<>>))
    /\ UNCHANGED <<transcript, gens_capacity, a_L, a_R, a_O, v, v_blinding, pc, proof>>

\* The labels gadget code derives challenges under.
GadgetLabels == {"k"}

ChallengeCalls(t) == Cardinality({i \in 1..Len(t) : t[i].op = "challenge_scalar"})

\* challenge_scalar answering from the entropy source instead of the transcript.
challenge_scalar_from_rng(label) ==
    /\ pc = "building"
    /\ ChallengeCalls(transcript) < MaxChallenges
    /\ \E e \in {0, 1}, e2 \in {0, 1} :
          /\ result' = Ret("challenge_scalar", "Ok", <<>>,
                           <<(TranscriptChallenge(transcript, label) + e) % ScalarOrder>>)
          /\ twin' = [twin EXCEPT
                        !.result = Ret("challenge_scalar", "Ok", <<>>,
                                       <<(TranscriptChallenge(twin.transcript, label) + e2)
                                         % ScalarOrder>>),
                        !.transcript = TranscriptAfterChallenge(twin.transcript, label)]
    /\ transcript' = TranscriptAfterChallenge(transcript, label)
    /\ UNCHANGED <<gens_capacity, constraints, a_L, a_R, a_O, v, v_blinding, pc, proof>>

challenge_scalar(label) ==
    /\ pc = "building"
    /\ ChallengeCalls(transcript) < MaxChallenges
    /\ result' = Ret("challenge_scalar", "Ok", <<>>,
                     <<TranscriptChallenge(transcript, label)>>)
    /\ transcript' = TranscriptAfterChallenge(transcript, label)
    /\ twin' = [twin EXCEPT
                  !.result = Ret("challenge_scalar", "Ok", <<>>,
                                 <<TranscriptChallenge(twin.transcript, label)>>),
                  !.transcript = TranscriptAfterChallenge(twin.transcript, label)]
    /\ UNCHANGED <<gens_capacity, constraints, a_L, a_R, a_O, v, v_blinding, pc, proof>>


\* -------------------------------------------------------------- flattening

\* A term added into the weights with the Committed terms added, not subtracted.
FlattenTermCommittedAdded(acc, term) ==
    LET var == term[1]
        i == var.i + 1
        c == Mul(acc.exp_z, term[2])
    IN CASE var.kind = "MultiplierLeft" -> [acc EXCEPT !.wL[i] = Add(@, c)]
         [] var.kind = "MultiplierRight" -> [acc EXCEPT !.wR[i] = Add(@, c)]
         [] var.kind = "MultiplierOutput" -> [acc EXCEPT !.wO[i] = Add(@, c)]
         [] var.kind = "Committed" -> [acc EXCEPT !.wV[i] = Add(@, c)]
         [] OTHER -> acc

\* One term (var, coeff) of a constraint added into the weights; an index
\* outside the vector is a panic.
FlattenTerm(acc, term) ==
    LET var == term[1]
        coeff == term[2]
        i == var.i + 1
        c == Mul(acc.exp_z, coeff)
    IN CASE var.kind = "MultiplierLeft" ->
              IF i \in DOMAIN acc.wL
              THEN [acc EXCEPT !.wL[i] = Add(@, c)]
              ELSE [acc EXCEPT !.panic = TRUE]
         [] var.kind = "MultiplierRight" ->
              IF i \in DOMAIN acc.wR
              THEN [acc EXCEPT !.wR[i] = Add(@, c)]
              ELSE [acc EXCEPT !.panic = TRUE]
         [] var.kind = "MultiplierOutput" ->
              IF i \in DOMAIN acc.wO
              THEN [acc EXCEPT !.wO[i] = Add(@, c)]
              ELSE [acc EXCEPT !.panic = TRUE]
         [] var.kind = "Committed" ->
              IF i \in DOMAIN acc.wV
              THEN [acc EXCEPT !.wV[i] = Sub(@, c)]
              ELSE [acc EXCEPT !.panic = TRUE]
         [] OTHER -> acc

\* The inner loop: the first k terms of lc.
RECURSIVE FlattenTerms(_, _, _)
FlattenTerms(acc, lc, k) ==
    IF k = 0 THEN acc
    ELSE FlattenTerm(FlattenTerms(acc, lc, k - 1), lc[k])

\* The flattening starting from z^0.
FirstExpZOne(z) == 1

\* The first power of z the flattening uses.
FirstExpZ(z) == z

\* The outer loop: the first q constraints, exp_z multiplied by z after each.
RECURSIVE FlattenConstraints(_, _, _, _)
FlattenConstraints(acc, cs, z, q) ==
    IF q = 0 THEN acc
    ELSE LET prev == FlattenConstraints(acc, cs, z, q - 1)
             done == FlattenTerms(prev, cs[q], Len(cs[q]))
         IN [done EXCEPT !.exp_z = Mul(done.exp_z, z)]

\* ProverCS::flattened_constraints on constraints cs, n gates, m inputs.
flattened_constraints(cs, n, m, z) ==
    FlattenConstraints([wL |-> Zeros(n), wR |-> Zeros(n), wO |-> Zeros(n),
                        wV |-> Zeros(m), exp_z |-> FirstExpZ(z), panic |-> FALSE],
                       cs, z, Len(cs))

\* ----------------------------------------------------------------- proving

\* 2^j
RECURSIVE Pow2(_)
Pow2(j) == IF j = 0 THEN 1 ELSE 2 * Pow2(j - 1)

\* usize::is_power_of_two
RECURSIVE is_power_of_two(_)
is_power_of_two(n) ==
    \/ n = 1
    \/ n > 1 /\ n % 2 = 0 /\ is_power_of_two(n \div 2)

\* usize::next_power_of_two: the smallest power of two >= n.
RECURSIVE PowerOfTwoFrom(_, _)
PowerOfTwoFrom(p, n) == IF p >= n THEN p ELSE PowerOfTwoFrom(2 * p, n)

next_power_of_two(n) == PowerOfTwoFrom(1, n)

\* The padding without the test for an empty system.
PadCountOfEmpty(temp_n) ==
    IF ~is_power_of_two(temp_n)
    THEN next_power_of_two(temp_n) - temp_n
    ELSE 0

\* How many gates prove appends to a system of temp_n gates.
PadCount(temp_n) ==
    IF ~(temp_n = 0 \/ is_power_of_two(temp_n))
    THEN next_power_of_two(temp_n) - temp_n
    ELSE 0

\* The padding placed in front of the allocated gates.
RECURSIVE PadGatesInFront(_, _, _, _)
PadGatesInFront(L, R, O, pad) ==
    IF pad = 0 THEN [a_L |-> L, a_R |-> R, a_O |-> O]
    ELSE PadGatesInFront(<<0>> \o L, <<0>> \o R, <<0>> \o O, pad - 1)

\* The padding loop: assign_multiplier(0, 0, 0), pad times, results dropped.
RECURSIVE PadGates(_, _, _, _)
PadGates(L, R, O, pad) ==
    IF pad = 0 THEN [a_L |-> L, a_R |-> R, a_O |-> O]
    ELSE LET r == assign_multiplier_body(L, R, O, Value(0), Value(0), Value(0))
         IN PadGates(r.a_L, r.a_R, r.a_O, pad - 1)

\* The capacity check demanding more generators than gates.
CapacityNotAbove(cap, n) == cap <= n

\* The capacity check of prove on n (padded) gates.
CapacityExceeded(cap, n) == cap < n

\* What thread_rng may yield.
Entropy == {0, 1}

\* The TranscriptRng: built from the transcript, the blinding factors of
\* the inputs and the entropy of thread_rng.
RngSeed(t, bs, entropy) ==
    (3 * Digest(t) + SumSeq([i \in 1..Len(bs) |-> Mul(i + 1, bs[i])]) + 5 * entropy + 2)
    % ScalarOrder

\* Scalar::random(&mut rng): the k-th scalar drawn (k = 0, 1, ...).
RngScalar(seed, k) == (seed * (k + 1) + k * k + 3 * k) % ScalarOrder

\* util::exp_iter(x).take(n): 1, x, x^2, ...
ExpIter(x, n) == [i \in 1..n |-> Pow(x, i - 1)]

\* VecPoly3::eval: the vector polynomial at x.
VecPoly3Eval(p, x) ==
    [i \in 1..Len(p[1]) |->
        Add(p[1][i], Mul(x, Add(p[2][i], Mul(x, Add(p[3][i], Mul(x, p[4][i]))))))]

\* VecPoly3::inner_product: the coefficients t0..t6 of <l(X), r(X)>.
VecPoly3InnerProduct(l, r) ==
    [k \in 0..6 |->
        SumSeq([d \in 1..4 |->
            IF k - (d - 1) \in 0..3
            THEN InnerProduct(l[d], r[k - (d - 1) + 1])
            ELSE 0])]

\* Poly6::eval: t1 x + t2 x^2 + ... + t6 x^6.
Poly6Eval(p, x) ==
    SumSeq([k \in 1..6 |-> Mul(p[k], Pow(x, k))])

\* The gate commitments absorbed with S before A_O.
CommitGatesOutLast(t, A_I, A_O, S) ==
    commit_point(commit_point(commit_point(t, "A_I", A_I), "S", S), "A_O", A_O)

\* The three gate commitments absorbed.
CommitGates(t, A_I, A_O, S) ==
    commit_point(commit_point(commit_point(t, "A_I", A_I), "A_O", A_O), "S", S)

\* The five coefficient commitments absorbed.
CommitCoefficients(t, T_1, T_3, T_4, T_5, T_6) ==
    commit_point(commit_point(commit_point(commit_point(commit_point(
        t, "T_1", T_1), "T_3", T_3), "T_4", T_4), "T_5", T_5), "T_6", T_6)

\* The three evaluation scalars absorbed.
CommitEvaluations(t, t_x, t_x_blinding, e_blinding) ==
    commit_scalar(commit_scalar(commit_scalar(
        t, "t_x", t_x), "t_x_blinding", t_x_blinding), "e_blinding", e_blinding)

\* InnerProductProof::create on transcript t for vectors of length n.
InnerProductCreate(t, n) ==
    Append(t, [op |-> "InnerProductProof::create", label |-> "ipp", data |-> <<n>>])

\* prove after the capacity check, step by step; st holds the inputs (the
\* transcript t, the padded witness L, R, O, the constraints cs, the input
\* blindings bs, the entropy e) and every value computed so far.

\* 1. The TranscriptRng, and the scalars drawn from it in the order of the code.
ProveRng(st) ==
    st @@ [n |-> Len(st.L), seed |-> RngSeed(st.t, st.bs, st.e)]

ProveBlindings(st) ==
    st @@ [i_blinding |-> RngScalar(st.seed, 0),
           o_blinding |-> RngScalar(st.seed, 1),
           s_blinding |-> RngScalar(st.seed, 2),
           s_L |-> [i \in 1..st.n |-> RngScalar(st.seed, 2 + i)],
           s_R |-> [i \in 1..st.n |-> RngScalar(st.seed, 2 + st.n + i)],
           t_1_blinding |-> RngScalar(st.seed, 3 + 2 * st.n),
           t_3_blinding |-> RngScalar(st.seed, 4 + 2 * st.n),
           t_4_blinding |-> RngScalar(st.seed, 5 + 2 * st.n),
           t_5_blinding |-> RngScalar(st.seed, 6 + 2 * st.n),
           t_6_blinding |-> RngScalar(st.seed, 7 + 2 * st.n)]

\* 3. The commitments A_I, A_O, S to the low-level witness.
ProveGateCommitments(st) ==
    st @@ [A_I |-> <<st.i_blinding>> \o st.L \o st.R,
           A_O |-> <<st.o_blinding>> \o st.O,
           S |-> <<st.s_blinding>> \o st.s_L \o st.s_R]

ProveAbsorbGates(st) ==
    st @@ [t1 |-> CommitGates(st.t, st.A_I, st.A_O, st.S)]

\* 4. The challenges y and z.
ProveChallengeY(st) ==
    st @@ [y |-> TranscriptChallenge(st.t1, "y"),
           t2 |-> TranscriptAfterChallenge(st.t1, "y")]

ProveChallengeZ(st) ==
    st @@ [z |-> TranscriptChallenge(st.t2, "z"),
           t3 |-> TranscriptAfterChallenge(st.t2, "z")]

ProveFlatten(st) ==
    st @@ [w4 |-> flattened_constraints(st.cs, st.n, Len(st.bs), st.z),
           exp_y |-> ExpIter(st.y, st.n),
           exp_y_inv |-> ExpIter(Invert(st.y), st.n)]

\* The polynomials with exp_y advanced before it is used: y^(i+1) at index i.
ProvePolynomialsExpYAhead(st) ==
    st @@ [l_poly |-> << Zeros(st.n),
                         [i \in 1..st.n |->
                             Add(st.L[i], Mul(st.exp_y_inv[i], st.w4.wR[i]))],
                         [i \in 1..st.n |-> st.O[i]],
                         [i \in 1..st.n |-> st.s_L[i]] >>,
           r_poly |-> << [i \in 1..st.n |-> Sub(st.w4.wO[i], Mul(st.exp_y[i], st.y))],
                         [i \in 1..st.n |->
                             Add(Mul(Mul(st.exp_y[i], st.y), st.R[i]), st.w4.wL[i])],
                         Zeros(st.n),
                         [i \in 1..st.n |-> Mul(Mul(st.exp_y[i], st.y), st.s_R[i])] >>]

\* The polynomials with a_O and s_L in each other's place in l(X).
ProvePolynomialsBlindingSwapped(st) ==
    st @@ [l_poly |-> << Zeros(st.n),
                         [i \in 1..st.n |->
                             Add(st.L[i], Mul(st.exp_y_inv[i], st.w4.wR[i]))],
                         [i \in 1..st.n |-> st.s_L[i]],
                         [i \in 1..st.n |-> st.O[i]] >>,
           r_poly |-> << [i \in 1..st.n |-> Sub(st.w4.wO[i], st.exp_y[i])],
                         [i \in 1..st.n |->
                             Add(Mul(st.exp_y[i], st.R[i]), st.w4.wL[i])],
                         Zeros(st.n),
                         [i \in 1..st.n |-> Mul(st.exp_y[i], st.s_R[i])] >>]

\* The blinded vector polynomials l(X) and r(X): coefficients 0..3.
ProvePolynomials(st) ==
    st @@ [l_poly |-> << Zeros(st.n),
                         [i \in 1..st.n |->
                             Add(st.L[i], Mul(st.exp_y_inv[i], st.w4.wR[i]))],
                         [i \in 1..st.n |-> st.O[i]],
                         [i \in 1..st.n |-> st.s_L[i]] >>,
           r_poly |-> << [i \in 1..st.n |-> Sub(st.w4.wO[i], st.exp_y[i])],
                         [i \in 1..st.n |->
                             Add(Mul(st.exp_y[i], st.R[i]), st.w4.wL[i])],
                         Zeros(st.n),
                         [i \in 1..st.n |-> Mul(st.exp_y[i], st.s_R[i])] >>]

ProveProduct(st) ==
    st @@ [t_poly |-> VecPoly3InnerProduct(st.l_poly, st.r_poly)]

\* The commitments T_1, T_3, T_4, T_5, T_6.
ProveCoefficientCommitments(st) ==
    st @@ [T_1 |-> PedersenCommit(st.t_poly[1], st.t_1_blinding),
           T_3 |-> PedersenCommit(st.t_poly[3], st.t_3_blinding),
           T_4 |-> PedersenCommit(st.t_poly[4], st.t_4_blinding),
           T_5 |-> PedersenCommit(st.t_poly[5], st.t_5_blinding),
           T_6 |-> PedersenCommit(st.t_poly[6], st.t_6_blinding)]

ProveAbsorbCoefficients(st) ==
    st @@ [t4 |-> CommitCoefficients(st.t3, st.T_1, st.T_3, st.T_4, st.T_5, st.T_6)]

ProveChallengeX(st) ==
    st @@ [x |-> TranscriptChallenge(st.t4, "x"),
           t5 |-> TranscriptAfterChallenge(st.t4, "x")]

\* The blinding of t2 drawn from the rng like the other five.
ProveBlindingPolySampled(st) ==
    st @@ [t_blinding_poly |->
              <<st.t_1_blinding, RngScalar(st.seed, 8 + 2 * st.n), st.t_3_blinding,
                st.t_4_blinding, st.t_5_blinding, st.t_6_blinding>>]

ProveBlindingPoly(st) ==
    st @@ [t_blinding_poly |->
              <<st.t_1_blinding, InnerProduct(st.w4.wV, st.bs), st.t_3_blinding,
                st.t_4_blinding, st.t_5_blinding, st.t_6_blinding>>]

\* The vectors for the inner-product argument evaluated at y, not at x.
ProveEvaluationsVectorsAtY(st) ==
    st @@ [t_x |-> Poly6Eval([k \in 1..6 |-> st.t_poly[k]], st.x),
           t_x_blinding |-> Poly6Eval(st.t_blinding_poly, st.x),
           l_vec |-> VecPoly3Eval(st.l_poly, st.y),
           r_vec |-> VecPoly3Eval(st.r_poly, st.y),
           e_blinding |->
              Mul(st.x, Add(st.i_blinding,
                            Mul(st.x, Add(st.o_blinding, Mul(st.x, st.s_blinding)))))]

ProveEvaluations(st) ==
    st @@ [t_x |-> Poly6Eval([k \in 1..6 |-> st.t_poly[k]], st.x),
           t_x_blinding |-> Poly6Eval(st.t_blinding_poly, st.x),
           l_vec |-> VecPoly3Eval(st.l_poly, st.x),
           r_vec |-> VecPoly3Eval(st.r_poly, st.x),
           e_blinding |->
              Mul(st.x, Add(st.i_blinding,
                            Mul(st.x, Add(st.o_blinding, Mul(st.x, st.s_blinding)))))]

ProveAbsorbEvaluations(st) ==
    st @@ [t6 |-> CommitEvaluations(st.t5, st.t_x, st.t_x_blinding, st.e_blinding)]

ProveChallengeW(st) ==
    st @@ [w |-> TranscriptChallenge(st.t6, "w"),
           t7 |-> TranscriptAfterChallenge(st.t6, "w")]

ProveInnerProduct(st) ==
    st @@ [t8 |-> InnerProductCreate(st.t7, st.n)]

\* The transcript prove leaves and the proof with the values it was built from.
ProveReturn(st) ==
    [transcript |-> st.t8,
     proof |-> [made |-> TRUE, entropy |-> st.e,
                A_I |-> st.A_I, A_O |-> st.A_O, S |-> st.S,
                T_1 |-> st.T_1, T_3 |-> st.T_3, T_4 |-> st.T_4,
                T_5 |-> st.T_5, T_6 |-> st.T_6,
                t_x |-> st.t_x, t_x_blinding |-> st.t_x_blinding,
                e_blinding |-> st.e_blinding,
                ipp_proof |-> [Q |-> st.w, rescale |-> st.exp_y_inv,
                               l_vec |-> st.l_vec, r_vec |-> st.r_vec],
                y |-> st.y, z |-> st.z, x |-> st.x, w |-> st.w,
                wL |-> st.w4.wL, wR |-> st.w4.wR, wO |-> st.w4.wO, wV |-> st.w4.wV,
                panic |-> st.w4.panic,
                i_blinding |-> st.i_blinding, o_blinding |-> st.o_blinding,
                s_blinding |-> st.s_blinding, s_L |-> st.s_L, s_R |-> st.s_R,
                l_poly |-> st.l_poly, r_poly |-> st.r_poly, t_poly |-> st.t_poly,
                t_blinding_poly |-> st.t_blinding_poly]]

ProveRun(t, L, R, O, cs, bs, e) ==
    ProveReturn(ProveInnerProduct(ProveChallengeW(ProveAbsorbEvaluations(
    ProveEvaluations(ProveBlindingPoly(ProveChallengeX(ProveAbsorbCoefficients(
    ProveCoefficientCommitments(ProveProduct(ProvePolynomials(ProveFlatten(
    ProveChallengeZ(ProveChallengeY(ProveAbsorbGates(ProveGateCommitments(
    ProveBlindings(ProveRng(
        [t |-> t, L |-> L, R |-> R, O |-> O, cs |-> cs, bs |-> bs, e |-> e]
    ))))))))))))))))))

\* prove checking the capacity only after the gate commitments are absorbed.
prove_begin_check_late ==
    /\ pc = "building"
    /\ LET padded == PadGates(a_L, a_R, a_O, PadCount(Len(a_L)))
           n == Len(padded.a_L)
       IN /\ a_L' = padded.a_L
          /\ a_R' = padded.a_R
          /\ a_O' = padded.a_O
          /\ IF CapacityExceeded(gens_capacity, n)
             THEN /\ pc' = "failed"
                  /\ result' = Ret("prove", "InvalidGeneratorsLength", <<>>, <<>>)
                  /\ twin' = TwinReturns(Ret("prove", "InvalidGeneratorsLength", <<>>, <<>>))
                  /\ transcript' =
                        ProveAbsorbGates(ProveGateCommitments(ProveBlindings(ProveRng(
                            [t |-> transcript, L |-> padded.a_L, R |-> padded.a_R,
                             O |-> padded.a_O, cs |-> constraints, bs |-> v_blinding,
                             e |-> 0])))).t1
             ELSE /\ pc' = "proving"
                  /\ result' = NoResult
                  /\ twin' = TwinReturns(NoResult)
                  /\ transcript' = transcript
    /\ UNCHANGED <<gens_capacity, constraints, v, v_blinding, proof>>

\* ProverCS::prove, consuming the system: the padding and the capacity check.
prove_begin ==
    /\ pc = "building"
    /\ LET padded == PadGates(a_L, a_R, a_O, PadCount(Len(a_L)))
           n == Len(padded.a_L)
       IN /\ a_L' = padded.a_L
          /\ a_R' = padded.a_R
          /\ a_O' = padded.a_O
          /\ IF CapacityExceeded(gens_capacity, n)
             THEN /\ pc' = "failed"
                  /\ result' = Ret("prove", "InvalidGeneratorsLength", <<>>, <<>>)
                  /\ twin' = TwinReturns(Ret("prove", "InvalidGeneratorsLength", <<>>, <<>>))
             ELSE /\ pc' = "proving"
                  /\ result' = NoResult
                  /\ twin' = TwinReturns(NoResult)
    /\ UNCHANGED <<transcript, gens_capacity, constraints, v, v_blinding, proof>>

\* The proofs prove builds on transcript t, one for each value of the entropy.
ProveRuns(t) ==
    [e \in Entropy |-> ProveRun(t, a_L, a_R, a_O, constraints, v_blinding, e)]

\* ProverCS::prove after the capacity check, to its return; e and e2 are
\* what thread_rng yields in this run and in the twin run.
prove_finish ==
    /\ pc = "proving"
    /\ \E runs \in {ProveRuns(transcript)} :
       \E runs2 \in {IF twin.transcript = transcript THEN runs
                     ELSE ProveRuns(twin.transcript)} :
       \E e \in Entropy, e2 \in Entropy :
          /\ transcript' = runs[e].transcript
          /\ proof' = runs[e].proof
          /\ twin' = [transcript |-> runs2[e2].transcript,
                      result |-> Ret("prove", "Ok", <<>>, <<>>),
                      proof |-> runs2[e2].proof]
    /\ pc' = "proved"
    /\ result' = Ret("prove", "Ok", <<>>, <<>>)
    /\ UNCHANGED <<gens_capacity, constraints, a_L, a_R, a_O, v, v_blinding>>

Next ==
    \/ \E left \in LeftInputs(Len(a_L)), right \in RightInputs(Len(a_L)),
          out \in OutInputs(Len(a_L)) :
          assign_multiplier(left, right, out)
    \/ \E val_1 \in LeftInputs(Len(a_L)), val_2 \in RightInputs(Len(a_L)) :
          assign_uncommitted(val_1, val_2)
    \/ \E lc \in LinearCombinations(Len(a_L), Len(v)) : add_constraint(lc)
    \/ \E label \in GadgetLabels : challenge_scalar(label)
    \/ prove_begin
    \/ prove_finish

Spec == Init /\ [][Next]_vars


\* ------------------------------------------ the flattening on its own

\* The constraints registered on a system of n gates allocated from the
\* inputs above and m external inputs: some hold under the witness (with
\* and without a One term, with and without a Committed term), some do not.
FlattenInputs(n, m) ==
    (IF n >= 1
     THEN { << <<MultiplierOutput(0), 1>>, <<One, Neg(12)>> >>,
            << <<MultiplierLeft(n - 1), 2>>, <<MultiplierOutput(n - 1), Neg(1)>>,
               <<MultiplierLeft(n - 1), 2>> >>,
            << <<MultiplierRight(0), 1>>, <<One, 1>> >> }
     ELSE {})
    \cup
    (IF n >= 1 /\ m >= 1
     THEN { << <<Committed(0), 2>>, <<MultiplierRight(n - 1), Neg(1)>> >> }
     ELSE {})
    \cup
    (IF m >= 1
     THEN { << <<Committed(m - 1), 1>>, <<One, Neg(m + 1)>> >> }
     ELSE { << <<One, 1>> >> })

\* The sequences over S of length at most k.
RECURSIVE SeqsUpTo(_, _)
SeqsUpTo(S, k) ==
    IF k = 0 THEN { <<>> }
    ELSE LET shorter == SeqsUpTo(S, k - 1)
         IN shorter \cup {Append(q, x) : q \in shorter, x \in S}

\* The system after new on m inputs, n allocations with known inputs and
\* the registration of the constraints cs.
Built(m, n, cs, cap) ==
    /\ v = [i \in 1..m |-> InputValue(i - 1)]
    /\ v_blinding = [i \in 1..m |-> InputBlinding(i - 1)]
    /\ transcript = NewTranscript(<<>>, v, v_blinding)
    /\ gens_capacity = cap
    /\ a_L = [i \in 1..n |-> (3 + i - 1) % ScalarOrder]
    /\ a_R = [i \in 1..n |-> 4]
    /\ a_O = [i \in 1..n |-> Mul(3 + i - 1, 4)]
    /\ constraints = cs
    /\ pc = "building"
    /\ result = IF cs # <<>> THEN Ret("add_constraint", "Ok", <<>>, <<>>)
                ELSE IF n > 0
                THEN Ret("assign_multiplier", "Ok",
                         <<MultiplierLeft(n - 1), MultiplierRight(n - 1),
                           MultiplierOutput(n - 1)>>, <<>>)
                ELSE Ret("new", "Ok", NewVariables(v), NewCommitments(v, v_blinding))
    /\ proof = NoProof
    /\ twin = [transcript |-> transcript, result |-> result, proof |-> NoProof]

InitFlatten ==
    \E m \in 0..MaxM, n \in 0..MaxGates :
       \E cs \in SeqsUpTo(FlattenInputs(n, m), MaxConstraints) :
          Built(m, n, cs, 4)

\* flattened_constraints applied to the system at the challenge z.
flatten_at(z) ==
    /\ pc = "building"
    /\ LET w == flattened_constraints(constraints, Len(a_L), Len(v), z)
       IN result' = [op |-> "flattened_constraints",
                     status |-> IF w.panic THEN "Panic" ELSE "Ok",
                     vars |-> <<>>,
                     out |-> <<w.wL, w.wR, w.wO, w.wV>>,
                     z |-> z]
    /\ twin' = TwinReturns(result')
    /\ UNCHANGED <<transcript, gens_capacity, constraints, a_L, a_R, a_O,
                   v, v_blinding, pc, proof>>

NextFlatten == \E z \in Scalars : flatten_at(z)

SpecFlatten == InitFlatten /\ [][NextFlatten]_vars

\* ------------------------------------------------------------------ claims

\* C1: a call of assign_multiplier in which left, right or out is the
\* missing Assignment returns the witness error and changes nothing of the
\* prover state: a_L, a_R, a_O (no partial push, whichever input is the
\* missing one), constraints, v, v_blinding and the transcript.
C1_MissingInputChangesNothing ==
    [][\A left \in LeftInputs(Len(a_L)), right \in RightInputs(Len(a_L)),
          out \in OutInputs(Len(a_L)) :
          (assign_multiplier(left, right, out)
           /\ (~left.known \/ ~right.known \/ ~out.known))
          => /\ result'.status = "MissingAssignment"
             /\ result'.vars = <<>>
             /\ a_L' = a_L /\ a_R' = a_R /\ a_O' = a_O
             /\ constraints' = constraints
             /\ v' = v /\ v_blinding' = v_blinding
             /\ transcript' = transcript]_vars

\* A failed assign_multiplier on a system that holds gates and constraints.
C1_Witness ==
    /\ result.op = "assign_multiplier"
    /\ result.status = "MissingAssignment"
    /\ Len(a_L) >= 2
    /\ Len(constraints) >= 1
    /\ pc = "building"

\* C2: in every reachable state, whatever operations were performed
\* (failing allocations and the padding of prove included), a_L, a_R and
\* a_O have the same length.
C2_WitnessArraysSameLength ==
    /\ Len(a_L) = Len(a_R)
    /\ Len(a_R) = Len(a_O)

\* After the padding of prove on three gates, constraints and a challenge.
C2_Witness ==
    /\ pc = "proved"
    /\ Len(a_L) = 4
    /\ Len(constraints) >= 1
    /\ \E k \in 1..Len(transcript) : transcript[k].label = "k"

\* var denotes a wire of a system of n gates and m external inputs.
ValidVariable(var, n, m) ==
    \/ var.kind = "One"
    \/ var.kind = "Committed" /\ var.i \in 0..(m - 1)
    \/ /\ var.kind \in {"MultiplierLeft", "MultiplierRight", "MultiplierOutput"}
       /\ var.i \in 0..(n - 1)

\* C3: new returns Committed(0..m-1); a successful assign_multiplier on n
\* gates returns exactly (MultiplierLeft(n), MultiplierRight(n),
\* MultiplierOutput(n)) and leaves n + 1 gates; the gate count and m never
\* decrease: so every variable an operation returns has an index below the
\* gate count (below m for Committed) then and in every later state.
C3_ReturnedVariablesStayValid ==
    /\ (result.op = "new" =>
           result.vars = [i \in 1..Len(v) |-> Committed(i - 1)])
    /\ [][/\ Len(a_L') >= Len(a_L)
          /\ Len(v') = Len(v)
          /\ \A k \in 1..Len(result'.vars) : ValidVariable(result'.vars[k], Len(a_L'), Len(v'))
          /\ (result'.op = "assign_multiplier" /\ result'.status = "Ok")
             => /\ result'.vars = <<MultiplierLeft(Len(a_L)),
                                    MultiplierRight(Len(a_L)),
                                    MultiplierOutput(Len(a_L))>>
                /\ Len(a_L') = Len(a_L) + 1]_vars

\* The third gate has just been allocated on a system with external inputs.
C3_Witness ==
    /\ result.op = "assign_multiplier"
    /\ result.status = "Ok"
    /\ result.vars[3] = MultiplierOutput(2)
    /\ Len(a_L) = 3
    /\ Len(v) = 2


\* The sum over the constraints q (counted from 1) and over the terms of q
\* on the variable var of z^q times the coefficient.
WeightOf(var, z) ==
    SumSeq([q \in 1..Len(constraints) |->
        Mul(Pow(z, q),
            SumSeq([k \in 1..Len(constraints[q]) |->
                IF constraints[q][k][1] = var THEN constraints[q][k][2] ELSE 0]))])

Flattened == result.op = "flattened_constraints"

\* C4: flattened_constraints(z) returns wL, wR, wO of length n and wV of
\* length m with wL[i] the sum, over the constraints q (0-indexed) and the
\* terms (MultiplierLeft(i), c) of q, of z^(q+1) * c, likewise wR and wO,
\* and wV[j] minus that sum for Committed(j); One terms go nowhere.  One
\* gate 3 * 4 = 12 with the constraint c - 12 * One at z = 2 gives
\* wO[0] = 2 and zero in wL, wR and wV.
C4_FlattenedWeights ==
    Flattened =>
        LET z == result.z
            wL == result.out[1]
            wR == result.out[2]
            wO == result.out[3]
            wV == result.out[4]
            n == Len(a_L)
            m == Len(v)
        IN /\ result.status = "Ok"
           /\ DOMAIN wL = 1..n /\ DOMAIN wR = 1..n /\ DOMAIN wO = 1..n
           /\ DOMAIN wV = 1..m
           /\ \A i \in 1..n :
                 /\ wL[i] = WeightOf(MultiplierLeft(i - 1), z)
                 /\ wR[i] = WeightOf(MultiplierRight(i - 1), z)
                 /\ wO[i] = WeightOf(MultiplierOutput(i - 1), z)
           /\ \A j \in 1..m : wV[j] = Neg(WeightOf(Committed(j - 1), z))
           /\ (/\ a_L = <<3>> /\ a_R = <<4>> /\ a_O = <<12>>
               /\ constraints = << << <<MultiplierOutput(0), 1>>, <<One, Neg(12)>> >> >>
               /\ z = 2)
              => /\ wO = <<2>> /\ wL = <<0>> /\ wR = <<0>>
                 /\ \A j \in 1..m : wV[j] = 0

\* Two constraints, the second with a repeated variable and a Committed
\* term, flattened at a challenge that is neither 0 nor 1.
C4_Witness ==
    /\ Flattened
    /\ result.z = 2
    /\ Len(a_L) = 1
    /\ Len(v) = 1
    /\ Len(constraints) = 2
    /\ constraints[1] = << <<Committed(0), 2>>, <<MultiplierRight(0), Neg(1)>> >>
    /\ constraints[2] = << <<MultiplierLeft(0), 2>>, <<MultiplierOutput(0), Neg(1)>>,
                           <<MultiplierLeft(0), 2>> >>
    /\ result.out[1] = <<Mul(4, 4)>>
    /\ result.out[4] = <<Neg(4)>>

\* The value of a variable under the witness.
ValueOf(var) ==
    CASE var.kind = "MultiplierLeft" -> a_L[var.i + 1]
      [] var.kind = "MultiplierRight" -> a_R[var.i + 1]
      [] var.kind = "MultiplierOutput" -> a_O[var.i + 1]
      [] var.kind = "Committed" -> v[var.i + 1]
      [] OTHER -> 1

\* The value of a linear combination under the witness, One terms included.
LcValue(lc) == SumSeq([k \in 1..Len(lc) |-> Mul(lc[k][2], ValueOf(lc[k][1]))])

AllConstraintsHold == \A q \in 1..Len(constraints) : LcValue(constraints[q]) = 0

\* sum over gates of (wL*a_L + wR*a_R + wO*a_O) minus sum of wV*v
FlattenedSum ==
    Sub(Add(Add(InnerProduct(result.out[1], a_L), InnerProduct(result.out[2], a_R)),
            InnerProduct(result.out[3], a_O)),
        InnerProduct(result.out[4], v))

\* C5 as stated: whenever every registered constraint evaluates to zero
\* under the witness (One terms included), the flattened vectors satisfy
\* sum (wL*a_L + wR*a_R + wO*a_O) - sum wV*v = 0.
C5_FlattenedSumIsZero ==
    (Flattened /\ AllConstraintsHold) => FlattenedSum = 0

\* C5 as amended: whenever every registered constraint evaluates to zero
\* under the witness (One terms included), the flattened vectors satisfy
\* sum (wL*a_L + wR*a_R + wO*a_O) - sum wV*v = - sum over the constraints
\* q of z^(q+1) times the One coefficients of q: the dropped constant
\* terms, so the sum is zero when no constraint has a One term.
C5_FlattenedSumIsMinusConstants ==
    (Flattened /\ AllConstraintsHold)
    => /\ FlattenedSum = Neg(WeightOf(One, result.z))
       /\ (\A q \in 1..Len(constraints) : \A k \in 1..Len(constraints[q]) :
              constraints[q][k][1] # One) => FlattenedSum = 0

\* Two constraints that hold, one with a One term and one with a Committed
\* term, flattened to a sum that is not zero.
C5_Witness ==
    /\ Flattened
    /\ AllConstraintsHold
    /\ Len(constraints) = 2
    /\ \E k \in 1..Len(constraints[1]) :
          constraints[1][k][1] = One /\ constraints[1][k][2] # 0
    /\ \E k \in 1..Len(constraints[2]) : constraints[2][k][1].kind = "Committed"
    /\ \E k \in 1..Len(constraints[2]) : constraints[2][k][1].kind = "MultiplierRight"
    /\ result.z \notin {0, 1}
    /\ FlattenedSum # 0


\* k is zero or a power of two.
ZeroOrPowerOfTwo(k) == k = 0 \/ \E j \in 0..k : Pow2(j) = k

\* arr is old followed by zeros only.
PaddedWithZeros(old, arr) ==
    /\ Len(arr) >= Len(old)
    /\ \A i \in 1..Len(old) : arr[i] = old[i]
    /\ \A i \in (Len(old) + 1)..Len(arr) : arr[i] = 0

\* C6: the padding step of prove on n gates appends nothing if n is 0 or
\* a power of two, and otherwise appends gates up to the smallest power of
\* two greater than n; afterwards the gate count is 0 or a power of two,
\* the first n entries of a_L, a_R, a_O are unchanged and every appended
\* entry is zero.
C6_PaddingToPowerOfTwo ==
    [][(pc = "building" /\ pc' # "building")
       => LET n == Len(a_L)
              n2 == Len(a_L')
          IN /\ ZeroOrPowerOfTwo(n2)
             /\ ZeroOrPowerOfTwo(n) => n2 = n
             /\ ~ZeroOrPowerOfTwo(n) =>
                   /\ n2 > n
                   /\ \A k \in (n + 1)..(n2 - 1) : ~ZeroOrPowerOfTwo(k)
             /\ PaddedWithZeros(a_L, a_L') /\ Len(a_L') = n2
             /\ PaddedWithZeros(a_R, a_R') /\ Len(a_R') = n2
             /\ PaddedWithZeros(a_O, a_O') /\ Len(a_O') = n2]_vars

\* Three gates have been padded to four.
C6_Witness ==
    /\ pc = "proving"
    /\ Len(a_L) = 4
    /\ a_L[3] # 0 /\ a_L[4] = 0 /\ a_R[4] = 0 /\ a_O[4] = 0

ProveTranscriptOrder ==
    << <<"commit_point", "A_I">>, <<"commit_point", "A_O">>, <<"commit_point", "S">>,
       <<"challenge_scalar", "y">>, <<"challenge_scalar", "z">>,
       <<"commit_point", "T_1">>, <<"commit_point", "T_3">>, <<"commit_point", "T_4">>,
       <<"commit_point", "T_5">>, <<"commit_point", "T_6">>,
       <<"challenge_scalar", "x">>,
       <<"commit_scalar", "t_x">>, <<"commit_scalar", "t_x_blinding">>,
       <<"commit_scalar", "e_blinding">>,
       <<"challenge_scalar", "w">>,
       <<"InnerProductProof::create", "ipp">> >>

\* C8: a prove run that passes the capacity check appends to the
\* transcript exactly: A_I, A_O, S absorbed; y, z derived; T_1, T_3, T_4,
\* T_5, T_6 absorbed; x derived; t_x, t_x_blinding, e_blinding absorbed; w
\* derived; the inner-product argument; with what was absorbed being the
\* values of the proof, and each challenge being the one the transcript
\* yields after everything before it in that order.
C8_ProveTranscriptOrder ==
    [][(pc = "proving" /\ pc' = "proved")
       => LET k0 == Len(transcript)
              t == transcript'
              At(j) == t[k0 + j]
              Before(j) == SubSeq(t, 1, k0 + j - 1)
          IN /\ Len(t) = k0 + Len(ProveTranscriptOrder)
             /\ SubSeq(t, 1, k0) = transcript
             /\ \A j \in 1..Len(ProveTranscriptOrder) :
                   <<At(j).op, At(j).label>> = ProveTranscriptOrder[j]
             /\ At(1).data = proof'.A_I /\ At(2).data = proof'.A_O
             /\ At(3).data = proof'.S
             /\ proof'.y = TranscriptChallenge(Before(4), "y")
             /\ proof'.z = TranscriptChallenge(Before(5), "z")
             /\ At(6).data = proof'.T_1 /\ At(7).data = proof'.T_3
             /\ At(8).data = proof'.T_4 /\ At(9).data = proof'.T_5
             /\ At(10).data = proof'.T_6
             /\ proof'.x = TranscriptChallenge(Before(11), "x")
             /\ At(12).data = <<proof'.t_x>>
             /\ At(13).data = <<proof'.t_x_blinding>>
             /\ At(14).data = <<proof'.e_blinding>>
             /\ proof'.w = TranscriptChallenge(Before(15), "w")]_vars

\* prove has returned a proof for a padded system with constraints.
C8_Witness ==
    /\ pc = "proved"
    /\ proof.made
    /\ Len(a_L) = 4
    /\ Len(constraints) = 2
    /\ transcript[Len(transcript)].op = "InnerProductProof::create"

\* The places of the transcript at which a challenge is derived.
ChallengePlaces(t) == {k \in 1..Len(t) : t[k].op = "challenge_scalar"}

\* C9: new absorbs the domain separator encoding m first, then the
\* commitments V_0..V_(m-1) to (v[i], v_blinding[i]) in index order under
\* the label "V", and nothing else; every challenge, of challenge_scalar
\* or of prove, is derived after these 1 + m operations.
C9_InputsBoundFirst ==
    LET m == Len(v)
    IN /\ Len(transcript) >= 1 + m
       /\ transcript[1] = [op |-> "r1cs_domain_sep", label |-> "dom-sep", data |-> <<m>>]
       /\ \A i \in 1..m :
             transcript[1 + i] = [op |-> "commit_point", label |-> "V",
                                  data |-> PedersenCommit(v[i], v_blinding[i])]
       /\ \A k \in (2 + m)..Len(transcript) :
             transcript[k].op # "r1cs_domain_sep" /\ transcript[k].label # "V"
       /\ \A k \in ChallengePlaces(transcript) : k > 1 + m
       /\ result.op = "new" =>
             /\ Len(transcript) = 1 + m
             /\ result.out = [i \in 1..m |-> PedersenCommit(v[i], v_blinding[i])]

\* Two inputs, a challenge of the gadget code and the challenges of prove.
C9_Witness ==
    /\ Len(v) = 2
    /\ pc = "proved"
    /\ Cardinality(ChallengePlaces(transcript)) = 5
    /\ transcript[2].data # transcript[3].data


\* The challenge derived at place k of log t agrees with the one derived at
\* place k of log u whenever the same operations precede both and the label
\* is the same.
SamePoint(t, u, k) ==
    /\ k <= Len(t) /\ k <= Len(u)
    /\ SubSeq(t, 1, k - 1) = SubSeq(u, 1, k - 1)
    /\ t[k].op = "challenge_scalar" /\ u[k].op = "challenge_scalar"
    /\ t[k].label = u[k].label

C11_InputsFixedAtConstruction ==
    /\ [](/\ Len(v) = Len(v_blinding)
          /\ v = [i \in 1..Len(v) |-> InputValue(i - 1)]
          /\ v_blinding = [i \in 1..Len(v) |-> InputBlinding(i - 1)]
          /\ transcript[1].op = "r1cs_domain_sep"
          /\ transcript[1].data = <<Len(v)>>
          /\ Cardinality({k \in 1..Len(transcript) : transcript[k].label = "V"}) = Len(v)
          /\ (result.op = "new" =>
                /\ result.vars = [i \in 1..Len(v) |-> Committed(i - 1)]
                /\ Len(result.out) = Len(v)
                /\ \A i \in 1..Len(v) :
                      result.out[i] = PedersenCommit(v[i], v_blinding[i])))
    /\ [][v' = v /\ v_blinding' = v_blinding]_vars

\* prove has returned on a padded system with two external inputs.
C11_Witness ==
    /\ pc = "proved"
    /\ Len(v) = 2
    /\ v_blinding = <<InputBlinding(0), InputBlinding(1)>>
    /\ Len(a_L) = 4
    /\ Len(constraints) = MaxConstraints
    /\ ChallengeCalls(transcript) >= 5

\* C12: assign_uncommitted with known values a and b on a system of n
\* gates appends exactly one gate a_L[n] = a, a_R[n] = b, a_O[n] = a * b and
\* returns (MultiplierLeft(n), MultiplierRight(n)); with a missing input it
\* returns the witness error and appends nothing.
C12_UncommittedPair ==
    [][\A val_1 \in LeftInputs(Len(a_L)), val_2 \in RightInputs(Len(a_L)) :
          assign_uncommitted(val_1, val_2)
          => IF val_1.known /\ val_2.known
             THEN /\ a_L' = Append(a_L, val_1.val)
                  /\ a_R' = Append(a_R, val_2.val)
                  /\ a_O' = Append(a_O, Mul(val_1.val, val_2.val))
                  /\ result'.status = "Ok"
                  /\ result'.vars = <<MultiplierLeft(Len(a_L)), MultiplierRight(Len(a_L))>>
             ELSE /\ result'.status = "MissingAssignment"
                  /\ result'.vars = <<>>
                  /\ a_L' = a_L /\ a_R' = a_R /\ a_O' = a_O]_vars

\* The second gate was allocated by assign_uncommitted from 4 and 4.
C12_Witness ==
    /\ result.op = "assign_uncommitted"
    /\ result.status = "Ok"
    /\ result.vars = <<MultiplierLeft(1), MultiplierRight(1)>>
    /\ Len(a_L) = 2
    /\ a_L[2] = 4 /\ a_R[2] = 4 /\ a_O[2] = 3

C15_BlindedPolynomials ==
    pc = "proved" =>
        LET n == Len(a_L)
            y == proof.y
            yi(i) == Pow(y, i - 1)
            yinv(i) == Pow(Invert(y), i - 1)
            s_L(i) == proof.S[1 + i]
            s_R(i) == proof.S[1 + n + i]
        IN /\ \A d \in 1..4 : Len(proof.l_poly[d]) = n /\ Len(proof.r_poly[d]) = n
           /\ Len(proof.ipp_proof.rescale) = n
           /\ \A i \in 1..n :
                 /\ proof.l_poly[1][i] = 0
                 /\ proof.l_poly[2][i] = Add(a_L[i], Mul(yinv(i), proof.wR[i]))
                 /\ proof.l_poly[3][i] = a_O[i]
                 /\ proof.l_poly[4][i] = s_L(i)
                 /\ proof.r_poly[1][i] = Sub(proof.wO[i], yi(i))
                 /\ proof.r_poly[2][i] = Add(Mul(yi(i), a_R[i]), proof.wL[i])
                 /\ proof.r_poly[3][i] = 0
                 /\ proof.r_poly[4][i] = Mul(yi(i), s_R(i))
                 /\ proof.ipp_proof.rescale[i] = yinv(i)
                 /\ (y # 0 => Mul(proof.ipp_proof.rescale[i], yi(i)) = 1)

\* A proof of a padded system of four gates with weights on the right and
\* the output wires and a challenge y that is neither 0 nor 1.
C15_Witness ==
    /\ pc = "proved"
    /\ Len(a_L) = 4
    /\ proof.y \notin {0, 1}
    /\ \E i \in 2..4 : proof.wR[i] # 0 /\ proof.l_poly[2][i] # a_L[i]
    /\ \E i \in 1..4 : proof.wO[i] # 0
    /\ \E i \in 2..4 : proof.l_poly[4][i] # 0 /\ proof.r_poly[4][i] # 0

\* C16: the published t_x is t(x), which equals the inner product of the
\* vectors l_vec = l(x) and r_vec = r(x) handed to the inner-product
\* argument, for every challenge x, t(X) being the coefficient convolution
\* of l(X) and r(X); and the constant coefficient t0 of t(X) is zero.
C16_EvaluationConsistent ==
    pc = "proved" =>
        LET n == Len(a_L)
            x == proof.x
            l_vec == proof.ipp_proof.l_vec
            r_vec == proof.ipp_proof.r_vec
        IN /\ Len(l_vec) = n /\ Len(r_vec) = n
           /\ \A i \in 1..n :
                 /\ l_vec[i] = SumSeq([d \in 1..4 |-> Mul(proof.l_poly[d][i], Pow(x, d - 1))])
                 /\ r_vec[i] = SumSeq([d \in 1..4 |-> Mul(proof.r_poly[d][i], Pow(x, d - 1))])
           /\ \A k \in 0..6 :
                 proof.t_poly[k] =
                    SumSeq([d \in 1..4 |->
                        IF k - d + 2 \in 1..4
                        THEN InnerProduct(proof.l_poly[d], proof.r_poly[k - d + 2])
                        ELSE 0])
           /\ proof.t_poly[0] = 0
           /\ proof.t_x = SumSeq([k \in 1..7 |-> Mul(proof.t_poly[k - 1], Pow(x, k - 1))])
           /\ proof.t_x = InnerProduct(l_vec, r_vec)

\* A proof of four gates whose t(x) is not zero at a challenge x that is
\* neither 0 nor 1 and differs from y.
C16_Witness ==
    /\ pc = "proved"
    /\ Len(a_L) = 4
    /\ proof.x \notin {0, 1, proof.y}
    /\ proof.t_x # 0
    /\ proof.t_poly[6] # 0
    /\ proof.t_poly[2] # 0

\* C17: t_x_blinding = t1_b*x + t2_b*x^2 + t3_b*x^3 + t4_b*x^4 + t5_b*x^5
\* + t6_b*x^6, without constant term, where t1_b, t3_b, t4_b, t5_b, t6_b
\* are the blindings of T_1, T_3, T_4, T_5, T_6 and t2_b is the sum over
\* the external inputs i of wV[i] * v_blinding[i], not a sampled scalar;
\* and e_blinding = x*(i_blinding + x*(o_blinding + x*s_blinding))
\* = i_blinding*x + o_blinding*x^2 + s_blinding*x^3.
C17_BlindingScalars ==
    pc = "proved" =>
        LET x == proof.x
            t2_b == SumSeq([i \in 1..Len(v) |-> Mul(proof.wV[i], v_blinding[i])])
            i_b == proof.A_I[1]
            o_b == proof.A_O[1]
            s_b == proof.S[1]
        IN /\ proof.t_x_blinding =
                Add(Mul(proof.T_1[2], x),
                Add(Mul(t2_b, Pow(x, 2)),
                Add(Mul(proof.T_3[2], Pow(x, 3)),
                Add(Mul(proof.T_4[2], Pow(x, 4)),
                Add(Mul(proof.T_5[2], Pow(x, 5)),
                    Mul(proof.T_6[2], Pow(x, 6)))))))
           /\ proof.e_blinding = Mul(x, Add(i_b, Mul(x, Add(o_b, Mul(x, s_b)))))
           /\ proof.e_blinding =
                Add(Mul(i_b, x), Add(Mul(o_b, Pow(x, 2)), Mul(s_b, Pow(x, 3))))

\* A proof of a system with two external inputs, weights on both, at a
\* challenge x that is neither 0 nor 1.
C17_Witness ==
    /\ pc = "proved"
    /\ Len(v) = 2
    /\ proof.wV[1] # 0 /\ proof.wV[2] # 0
    /\ SumSeq([i \in 1..Len(v) |-> Mul(proof.wV[i], v_blinding[i])]) # 0
    /\ proof.x \notin {0, 1}
    /\ proof.t_x_blinding # 0
    /\ proof.e_blinding # 0

\* C18: when prove fails with the generator-capacity error it has absorbed
\* nothing into the transcript and derived no challenge from it: the
\* transcript is in exactly the state it had when prove was called, and
\* stays so; no proof was built.
C18_CapacityFailureLeavesTranscript ==
    [][/\ (pc = "building" /\ pc' = "failed")
          => /\ result'.status = "InvalidGeneratorsLength"
             /\ transcript' = transcript
             /\ twin'.transcript = twin.transcript
             /\ proof' = proof
             /\ ~proof'.made
       /\ pc = "failed" => transcript' = transcript]_vars

\* prove failed after gadget code had drawn a challenge and registered
\* constraints on a system with external inputs.
C18_Witness ==
    /\ pc = "failed"
    /\ result.status = "InvalidGeneratorsLength"
    /\ ~proof.made
    /\ Len(v) = 2
    /\ Len(transcript) = 1 + Len(v) + 1
    /\ transcript[Len(transcript)].op = "challenge_scalar"
    /\ Len(constraints) >= 1

\* C19: for a witness in which every gate, padding included, satisfies
\* a_L[i] * a_R[i] = a_O[i], and for y # 0, the coefficient t2 of t(X)
\* equals sum over i of (wL[i]*a_L[i] + wR[i]*a_R[i] + wO[i]*a_O[i]) plus
\* sum over i of y^(-i) * wR[i] * wL[i]: an expression in the witness, the
\* flattened weights and y alone, in which neither s_L, s_R nor a sampled
\* blinding scalar occurs.
C19_SecondCoefficient ==
    pc = "proved" =>
        LET n == Len(a_L)
            y == proof.y
            gates == \A i \in 1..n : Mul(a_L[i], a_R[i]) = a_O[i]
        IN (gates /\ y # 0) =>
              proof.t_poly[2] =
                 Add(Add(Add(InnerProduct(proof.wL, a_L), InnerProduct(proof.wR, a_R)),
                         InnerProduct(proof.wO, a_O)),
                     SumSeq([i \in 1..n |->
                         Mul(Pow(Invert(y), i - 1), Mul(proof.wR[i], proof.wL[i]))]))

\* A proof of four gates at a y that is neither 0 nor 1, with weights wL
\* and wR on one gate after the first and blinding vectors that are not zero.
C19_Witness ==
    /\ pc = "proved"
    /\ Len(a_L) = 4
    /\ \A i \in 1..4 : Mul(a_L[i], a_R[i]) = a_O[i]
    /\ proof.y \notin {0, 1}
    /\ \E i \in 2..4 : proof.wR[i] # 0 /\ proof.wL[i] # 0
    /\ \E i \in 1..4 : proof.wO[i] # 0
    /\ proof.t_poly[2] # 0
    /\ \E i \in 1..4 : proof.s_L[i] # 0 /\ proof.s_R[i] # 0

\* old is a prefix of arr.
IsPrefix(old, arr) ==
    /\ Len(old) <= Len(arr)
    /\ \A i \in 1..Len(old) : arr[i] = old[i]

\* C20: the witness and the constraints are append-only and each builder
\* operation touches its own component only: assign_multiplier and
\* assign_uncommitted keep the earlier entries of a_L, a_R, a_O and leave
\* the constraints and the transcript alone; add_constraint leaves a_L,
\* a_R, a_O and the transcript alone; challenge_scalar changes the
\* transcript only; the padding of prove keeps the allocated gates.  So a
\* variable handed out earlier denotes the same value in every later state.
C20_AppendOnlyFrames ==
    [][/\ IsPrefix(a_L, a_L') /\ IsPrefix(a_R, a_R') /\ IsPrefix(a_O, a_O')
       /\ IsPrefix(constraints, constraints')
       /\ v' = v
       /\ (pc' = "building" /\ result'.op \in {"assign_multiplier", "assign_uncommitted"})
          => /\ constraints' = constraints
             /\ transcript' = transcript
             /\ Len(a_L') = Len(a_L) + (IF result'.status = "Ok" THEN 1 ELSE 0)
       /\ (pc' = "building" /\ result'.op = "add_constraint")
          => /\ a_L' = a_L /\ a_R' = a_R /\ a_O' = a_O
             /\ transcript' = transcript
             /\ Len(constraints') = Len(constraints) + 1
       /\ (pc' = "building" /\ result'.op = "challenge_scalar")
          => /\ a_L' = a_L /\ a_R' = a_R /\ a_O' = a_O
             /\ constraints' = constraints
             /\ IsPrefix(transcript, transcript')
             /\ Len(transcript') = Len(transcript) + 1
       /\ pc' # "building"
          => constraints' = constraints]_vars

\* Three allocated gates keep their values behind one gate of padding.
C20_Witness ==
    /\ pc = "proved"
    /\ Len(a_L) = 4
    /\ a_L[1] = 3 /\ a_R[1] = 4 /\ a_O[1] = 12
    /\ a_L[3] = 5 /\ a_O[3] = Mul(5, 4)
    /\ a_L[4] = 0 /\ a_O[4] = 0
    /\ Len(constraints) = 2
    /\ ChallengeCalls(transcript) = 5


====
